---- MODULE Spec2Model ----
(***************************************************************************)
(* Model of the two Maya plugins of colorbleed-config:                     *)
(*   - CollectInstances (plugins/maya/publish/collect_instances.py)        *)
(*   - CreateYetiRig    (plugins/maya/create/colorbleed_yeti_rig.py)       *)
(*                                                                         *)
(* A Python string that the code takes apart (a node path) is a sequence   *)
(* of one-character strings, so that str.split and str.join are computed.  *)
(* Attribute values, names and families are TLA+ strings; Python's None is *)
(* the value None.                                                         *)
(***************************************************************************)
EXTENDS FiniteSets, Integers, Sequences, TLC

VARIABLES
    scan,       \* collector: the objectSets returned by cmds.ls("*.id", ...)
    context0,   \* collector: the context as it was handed to process()
    context,    \* collector: the publish context (list of instances)
    idx,        \* collector: position of the for loop in scan
    pc,         \* collector: "idle" | "loop" | "done" | "failed"
    error,      \* collector: the set named by the AssertionError, or None
    warnings,   \* collector: the sets named by self.log.warning
    presort,    \* collector: the context as it was when sorted() was called
    nodes,      \* get_all_parents: its argument
    parents,    \* get_all_parents: its return value
    gpc,        \* get_all_parents: "idle" | "call" | "done"
    sets,       \* creator: the objectSets of the scene, by creation number
    created,    \* creator: per call, the two sets it created
    selection   \* creator: the host's current selection

vars == <<scan, context0, context, idx, pc, error, warnings, presort,
          nodes, parents, gpc, sets, created, selection>>

collectVars == <<scan, context0, context, idx, pc, error, warnings, presort>>
parentVars == <<nodes, parents, gpc>>
creatorVars == <<sets, created, selection>>

None == "None"

----------------------------------------------------------------------------
(* Bounds *)

\* longest scan of objectSets
MaxSets == 3
\* longest argument list of get_all_parents
MaxNodes == 2
\* deepest node path given to get_all_parents
MaxDepth == 3
\* number of CreateYetiRig.process calls
MaxCalls == 3

----------------------------------------------------------------------------
(* Python helpers *)

Range(s) == {s[i] : i \in 1..Len(s)}

NoDuplicates(s) == \A i, j \in 1..Len(s) : i # j => s[i] # s[j]

\* str.split(sep) for a one-character separator
RECURSIVE split(_, _)
split(s, sep) ==
    IF \E i \in 1..Len(s) : s[i] = sep
    THEN LET i == CHOOSE k \in 1..Len(s) :
                      s[k] = sep /\ \A j \in 1..(k - 1) : s[j] # sep
         IN  <<SubSeq(s, 1, i - 1)>> \o split(SubSeq(s, i + 1, Len(s)), sep)
    ELSE <<s>>

\* sep.join(items)
RECURSIVE join(_, _)
join(sep, items) ==
    IF items = <<>> THEN <<>>
    ELSE IF Len(items) = 1 THEN items[1]
    ELSE items[1] \o <<sep>> \o join(sep, Tail(items))

\* list(set(items)): the elements of items, each once. Python leaves the
\* order unspecified but fixed for a given set; CHOOSE is that order.
RECURSIVE list_of_set(_)
list_of_set(S) ==
    IF S = {} THEN <<>>
    ELSE LET x == CHOOSE y \in S : TRUE
         IN  <<x>> \o list_of_set(S \ {x})

list_set(items) == list_of_set(Range(items))

----------------------------------------------------------------------------
(* CollectInstances.get_all_parents *)

\* range(lo, hi) as a sequence
py_range(lo, hi) == [k \in 1..(IF hi > lo THEN hi - lo ELSE 0) |-> lo + k - 1]

\* a comprehension that also takes the empty prefix: range(1, ...)
parent_items_with_root(node) ==
    LET splitted == split(node, "|")
        r == py_range(1, Len(splitted))
    IN  [k \in 1..Len(r) |-> join("|", SubSeq(splitted, 1, r[k]))]

\* node.split("|") and the list comprehension over range(2, len(splitted))
parent_items(node) ==
    LET splitted == split(node, "|")
        r == py_range(2, Len(splitted))
    IN  [k \in 1..Len(r) |-> join("|", SubSeq(splitted, 1, r[k]))]

\* parents.extend(items) over all nodes
RECURSIVE extend_all(_)
extend_all(ns) ==
    IF ns = <<>> THEN <<>>
    ELSE parent_items(Head(ns)) \o extend_all(Tail(ns))

get_all_parents(ns) == list_set(extend_all(ns))

----------------------------------------------------------------------------
(* Node paths *)

\* node names, as character sequences
NodeNames == {<<"a">>, <<"b", "c">>}

\* a DAG location: the names from the top-level node down to the node
RECURSIVE PathsOfLen(_)
PathsOfLen(n) ==
    IF n = 0 THEN {<<>>}
    ELSE {Append(p, c) : p \in PathsOfLen(n - 1), c \in NodeNames}

DagPaths == UNION {PathsOfLen(n) : n \in 1..MaxDepth}

\* the long name the host prints for a DAG location: |c1|c2|...|cn
RECURSIVE LongName(_)
LongName(p) ==
    IF p = <<>> THEN <<>>
    ELSE <<"|">> \o Head(p) \o LongName(Tail(p))

ProperPrefixes(p) == {SubSeq(p, 1, k) : k \in 1..(Len(p) - 1)}

RECURSIVE SeqsUpTo(_, _)
SeqsUpTo(S, n) ==
    IF n = 0 THEN {<<>>}
    ELSE SeqsUpTo(S, n - 1) \cup
         {Append(q, x) : q \in {r \in SeqsUpTo(S, n - 1) : Len(r) = n - 1}, x \in S}

----------------------------------------------------------------------------
(* The host scene the collector queries *)

\* a dependency node that is no DAG node (such as a nested objectSet): its
\* long name has no "|"
DgNodes == {<< <<"s">> >>}

SceneNodes == DagPaths \cup DgNodes

\* intermediate objects: the leaf shapes named "bc"
Intermediate == {p \in DagPaths : Len(p) = MaxDepth /\ p[Len(p)] = <<"b", "c">>}

\* the name cmds.ls(..., long=True) prints for a node
HostLong(n) == IF n \in DgNodes THEN n[1] ELSE LongName(n)

\* the scene node a long name resolves to
Resolve(name) == CHOOSE n \in SceneNodes : HostLong(n) = name

Descendants(n) ==
    IF n \in DgNodes THEN {}
    ELSE {d \in DagPaths : n \in ProperPrefixes(d)}

\* cmds.ls(nodes, long=True)
ls_long(ns) == [k \in 1..Len(ns) |-> HostLong(ns[k])]

\* cmds.listRelatives(names, allDescendents=True, fullPath=True) or []
RECURSIVE listRelatives(_)
listRelatives(names) ==
    IF names = <<>> THEN <<>>
    ELSE LET ds == {HostLong(d) : d \in Descendants(Resolve(Head(names)))}
         IN  list_of_set(ds) \o listRelatives(Tail(names))

\* cmds.ls(names, noIntermediate=True, long=True) of the names it is given
ls_noIntermediate(names) ==
    SelectSeq(names, LAMBDA c : Resolve(c) \notin Intermediate)

----------------------------------------------------------------------------
(* objectSets, attributes and instances *)

Marker == "pyblish.avalon.instance"
OtherId == "pyblish.avalon.container"

\* family names in Python's string order
FamilyNames == <<"colorbleed.animation", "colorbleed.model", "colorbleed.yetiRig">>

\* every value a sort key can take, in Python 2's order (None first)
KeyOrder == <<None>> \o FamilyNames

Rank(v) == CHOOSE i \in 1..Len(KeyOrder) : KeyOrder[i] = v

\* d[a] = v
Put(d, a, v) == [x \in (DOMAIN d) \cup {a} |-> IF x = a THEN v ELSE d[x]]

\* dict.update
update(d, e) ==
    [x \in (DOMAIN d) \cup (DOMAIN e) |-> IF x \in DOMAIN e THEN e[x] ELSE d[x]]

\* the attribute dictionaries F, each also extended by attribute a with a value of V
With(F, a, V) == F \cup {Put(f, a, v) : f \in F, v \in V}

\* the user-defined attributes an objectSet may carry
AllAttrs ==
    With(With(With(With(With(With({<<>>},
        "id", {Marker, OtherId}),
        "family", Range(FamilyNames)),
        "families", {FamilyNames[1], FamilyNames[2]}),
        "active", {"True", "False"}),
        "publish", {"True", "False"}),
        "name", {"custom"})

\* attributes whose getAttr may raise
MayBeUnreadable == {"active", "publish", "name"}

SetNames == <<"set1", "set2", "set3", "set4", "set5", "set6">>

DefaultAttrs == [id |-> Marker, family |-> FamilyNames[2]]

DefaultMembers == << << <<"a">> >> >>

Shape(a, u, m) == [attrs |-> a, unreadable |-> u, members |-> m]

\* objectSets that differ in what decides the branch taken and the sort key
BranchShapes ==
    {Shape(a, {}, m) :
        a \in {[family |-> FamilyNames[2]],
               [id |-> OtherId, family |-> FamilyNames[2]],
               [id |-> Marker],
               [id |-> Marker, family |-> FamilyNames[1]],
               [id |-> Marker, family |-> FamilyNames[2]],
               [id |-> Marker, family |-> FamilyNames[3], families |-> FamilyNames[1]]},
        m \in {<<>>, DefaultMembers}}

\* objectSets that differ in their attributes
AttrShapes ==
    {sh \in {Shape(a, u, DefaultMembers) :
                a \in AllAttrs, u \in SUBSET MayBeUnreadable} :
        sh.unreadable \subseteq DOMAIN sh.attrs}

\* objectSets that differ in their members
MemberShapes ==
    {Shape(DefaultAttrs, {}, m) :
        m \in {q \in SeqsUpTo(SceneNodes, 2) : q # <<>> /\ NoDuplicates(q)}}

\* the scan: each shape becomes the objectSet at its position
MkScan(shapes) ==
    [i \in 1..Len(shapes) |->
        [name |-> SetNames[i], attrs |-> shapes[i].attrs,
         unreadable |-> shapes[i].unreadable, members |-> shapes[i].members]]

\* instances other collectors left in the context
PreInstances ==
    {[objset |-> "", nodes |-> <<>>, setMembers |-> <<>>, data |-> d] :
        d \in {[name |-> "pre", family |-> FamilyNames[2]],
               [name |-> "pre", family |-> FamilyNames[1],
                families |-> FamilyNames[3]]}}

----------------------------------------------------------------------------
(* CollectInstances.process *)

\* cmds.attributeQuery(attr, node=objset, exists=True)
attributeQuery(attr, s) == attr \in DOMAIN s.attrs

\* cmds.sets(objset, query=True); <<>> stands for None
sets_query(s) == s.members

\* a read without the try/except: the value stays whatever it was
read_attr_unguarded(s, attr) == s.attrs[attr]

\* value = cmds.getAttr(...), or None when it raises
read_attr(s, attr) == IF attr \in s.unreadable THEN None ELSE s.attrs[attr]

\* a remap that keeps a publish value that is already there
remap_active_setdefault(data) ==
    IF "active" \in DOMAIN data /\ "publish" \notin DOMAIN data
    THEN Put(data, "publish", data["active"])
    ELSE data

\* if "active" in data: data["publish"] = data["active"]
remap_active(data) ==
    IF "active" \in DOMAIN data
    THEN Put(data, "publish", data["active"])
    ELSE data

\* the data dictionary of one objectSet
collect_data(s) == remap_active([a \in DOMAIN s.attrs |-> read_attr(s, a)])

\* a hierarchy without the parents
members_hierarchy_no_parents(members) ==
    LET children == ls_noIntermediate(listRelatives(members))
    IN  list_set(members \o children)

\* list(set(members + children + parents))
members_hierarchy(members) ==
    LET children == ls_noIntermediate(listRelatives(members))
        prnts == get_all_parents(members)
    IN  list_set(members \o children \o prnts)

\* the instance built from objectSet s
make_instance(s) ==
    LET data == collect_data(s)
        members == ls_long(sets_query(s))
        name == IF "name" \in DOMAIN data THEN data["name"] ELSE s.name
    IN  [objset |-> s.name,
         nodes |-> members_hierarchy(members),
         setMembers |-> members,
         data |-> update([name |-> name], data)]

\* an instance put in front of the context
create_instance_first(ctx, inst) == <<inst>> \o ctx

\* context.create_instance appends the instance to the context
create_instance(ctx, inst) == Append(ctx, inst)

\* a loop that looks at the members before the family
branch_members_first(s) ==
    IF ~attributeQuery("id", s) THEN "no_id"
    ELSE IF s.attrs["id"] # Marker THEN "other_id"
    ELSE IF sets_query(s) = <<>> THEN "empty"
    ELSE IF ~attributeQuery("family", s) THEN "assert"
    ELSE "create"

\* a loop that takes any id value
branch_any_id(s) ==
    IF ~attributeQuery("id", s) THEN "no_id"
    ELSE IF ~attributeQuery("family", s) THEN "assert"
    ELSE IF sets_query(s) = <<>> THEN "empty"
    ELSE "create"

\* a loop that gives up on an empty set
branch_empty_fails(s) ==
    IF ~attributeQuery("id", s) THEN "no_id"
    ELSE IF s.attrs["id"] # Marker THEN "other_id"
    ELSE IF ~attributeQuery("family", s) \/ sets_query(s) = <<>> THEN "assert"
    ELSE "create"

\* which way one pass of the for loop goes, in the order of the code's tests
branch(s) ==
    IF ~attributeQuery("id", s) THEN "no_id"
    ELSE IF s.attrs["id"] # Marker THEN "other_id"
    ELSE IF ~attributeQuery("family", s) THEN "assert"
    ELSE IF sets_query(s) = <<>> THEN "empty"
    ELSE "create"

\* a key that ignores families
sort_by_family_only(instance) ==
    IF "family" \in DOMAIN instance.data THEN instance.data["family"] ELSE None

\* instance.data.get("families", instance.data.get("family"))
sort_by_family(instance) ==
    IF "families" \in DOMAIN instance.data THEN instance.data["families"]
    ELSE IF "family" \in DOMAIN instance.data THEN instance.data["family"]
    ELSE None

\* x put behind the last element of the sorted s that is not greater
insert_stable(x, s) ==
    LET n == Cardinality({i \in 1..Len(s) :
                 Rank(sort_by_family(s[i])) <= Rank(sort_by_family(x))})
    IN  SubSeq(s, 1, n) \o <<x>> \o SubSeq(s, n + 1, Len(s))

\* a sort that puts equal keys in reverse
RECURSIVE sorted_unstable(_)
sorted_unstable(ctx) ==
    IF ctx = <<>> THEN <<>>
    ELSE insert_stable(Head(ctx), sorted_unstable(Tail(ctx)))

\* sorted(context, key=sort_by_family): stable, ascending
RECURSIVE sorted(_)
sorted(ctx) ==
    IF ctx = <<>> THEN <<>>
    ELSE insert_stable(ctx[Len(ctx)], sorted(SubSeq(ctx, 1, Len(ctx) - 1)))

InitCollect ==
    /\ \E shapes \in
           SeqsUpTo(BranchShapes, MaxSets)
           \cup {<<sh>> : sh \in AttrShapes}
           \cup {<<sh>> : sh \in MemberShapes} :
           scan = MkScan(shapes)
    /\ context0 \in {<<>>} \cup {<<p>> : p \in PreInstances}
    /\ context = context0
    /\ idx = 1
    /\ pc = "loop"
    /\ error = None
    /\ warnings = <<>>
    /\ presort = <<>>
    /\ nodes = <<>> /\ parents = <<>> /\ gpc = "idle"
    /\ sets = <<>> /\ created = <<>> /\ selection = {}

InLoop == pc = "loop" /\ idx <= Len(scan)

\* line 51: the set has no id attribute
SkipNoId ==
    /\ InLoop
    /\ branch(scan[idx]) = "no_id"
    /\ idx' = idx + 1
    /\ UNCHANGED <<scan, context0, context, pc, error, warnings, presort,
                   parentVars, creatorVars>>

\* line 55: the id is not the marker
SkipOtherId ==
    /\ InLoop
    /\ branch(scan[idx]) = "other_id"
    /\ idx' = idx + 1
    /\ UNCHANGED <<scan, context0, context, pc, error, warnings, presort,
                   parentVars, creatorVars>>

\* line 63: the assertion fails and process() is left
AssertFamily ==
    /\ InLoop
    /\ branch(scan[idx]) = "assert"
    /\ pc' = "failed"
    /\ error' = scan[idx].name
    /\ UNCHANGED <<scan, context0, context, idx, warnings, presort,
                   parentVars, creatorVars>>

\* lines 66-68: no members
SkipEmpty ==
    /\ InLoop
    /\ branch(scan[idx]) = "empty"
    /\ warnings' = Append(warnings, scan[idx].name)
    /\ idx' = idx + 1
    /\ UNCHANGED <<scan, context0, context, pc, error, presort,
                   parentVars, creatorVars>>

\* lines 70-114
CreateInstance ==
    /\ InLoop
    /\ branch(scan[idx]) = "create"
    /\ context' = create_instance(context, make_instance(scan[idx]))
    /\ idx' = idx + 1
    /\ UNCHANGED <<scan, context0, pc, error, warnings, presort,
                   parentVars, creatorVars>>

\* lines 116-123, after the loop
SortAndReturn ==
    /\ pc = "loop"
    /\ idx > Len(scan)
    /\ presort' = context
    /\ context' = sorted(context)
    /\ pc' = "done"
    /\ UNCHANGED <<scan, context0, idx, error, warnings, parentVars, creatorVars>>

Next ==
    \/ SkipNoId
    \/ SkipOtherId
    \/ AssertFamily
    \/ SkipEmpty
    \/ CreateInstance
    \/ SortAndReturn

Spec == InitCollect /\ [][Next]_vars

----------------------------------------------------------------------------
(* CreateYetiRig.process *)

\* the nodes the artist can select
SceneObjects == {"pSphere1", "pCube1"}

\* the name the creator was given for its instance set
InstanceSetName == "yetiRigDefault"

\* the base creator: one new objectSet, holding the selection when asked to
Creator_process(ss, sel, useSelection) ==
    Append(ss, [name |-> InstanceSetName,
                nodes |-> IF useSelection THEN sel ELSE {},
                subsets |-> {}])

\* cmds.sets(name=name, empty=True)
sets_create_empty(ss, name) ==
    Append(ss, [name |-> name, nodes |-> {}, subsets |-> {}])

\* the two sets the wrong way round
sets_forceElement_swapped(ss, member, target) ==
    [ss EXCEPT ![member].subsets = @ \cup {target}]

\* cmds.sets(member, forceElement=target)
sets_forceElement(ss, member, target) ==
    [ss EXCEPT ![target].subsets = @ \cup {member}]

InitYeti ==
    /\ sets = <<>>
    /\ created = <<>>
    /\ selection \in SUBSET SceneObjects
    /\ scan = <<>> /\ context0 = <<>> /\ context = <<>> /\ idx = 1
    /\ pc = "idle" /\ error = None /\ warnings = <<>> /\ presort = <<>>
    /\ nodes = <<>> /\ parents = <<>> /\ gpc = "idle"

\* the artist changes the selection
Select ==
    /\ \E sel \in SUBSET SceneObjects :
           /\ sel # selection
           /\ selection' = sel
    /\ UNCHANGED <<sets, created, collectVars, parentVars>>

\* one call of CreateYetiRig.process
CreateYetiRig ==
    /\ Len(created) < MaxCalls
    /\ \E useSelection \in BOOLEAN :
           LET s1 == Creator_process(sets, selection, useSelection)
               instance == Len(s1)
               s2 == sets_create_empty(s1, "input_SET")
               input_meshes == Len(s2)
           IN  /\ sets' = sets_forceElement(s2, input_meshes, instance)
               /\ created' = Append(created,
                                   [instance |-> instance, input |-> input_meshes])
    /\ UNCHANGED <<selection, collectVars, parentVars>>

NextYeti == Select \/ CreateYetiRig

SpecYeti == InitYeti /\ [][NextYeti]_vars

----------------------------------------------------------------------------
(* Specification of get_all_parents as a function of its argument *)

InitParents ==
    /\ nodes \in SeqsUpTo({LongName(p) : p \in DagPaths}, MaxNodes)
    /\ parents = <<>>
    /\ gpc = "call"
    /\ scan = <<>> /\ context0 = <<>> /\ context = <<>> /\ idx = 1
    /\ pc = "idle" /\ error = None /\ warnings = <<>> /\ presort = <<>>
    /\ sets = <<>> /\ created = <<>> /\ selection = {}

GetAllParents ==
    /\ gpc = "call"
    /\ parents' = get_all_parents(nodes)
    /\ gpc' = "done"
    /\ UNCHANGED <<nodes, collectVars, creatorVars>>

NextParents == GetAllParents

SpecParents == InitParents /\ [][NextParents]_vars

\* the DAG locations the argument names
InputPaths == {p \in DagPaths : LongName(p) \in Range(nodes)}

\* C9: get_all_parents returns exactly the proper non-empty prefixes of its
\* input paths, each once; never the empty root path; an input path only
\* when it is a proper ancestor of another input; nothing when every input
\* is a top-level node or there is no input.
ParentsAreProperPrefixes ==
    gpc = "done" =>
        /\ Range(parents) =
               {LongName(q) : q \in UNION {ProperPrefixes(p) : p \in InputPaths}}
        /\ NoDuplicates(parents)
        /\ <<>> \notin Range(parents)
        /\ \A p \in InputPaths :
               LongName(p) \in Range(parents) =>
                   \E o \in InputPaths : p \in ProperPrefixes(o)
        /\ (\A p \in InputPaths : Len(p) = 1) => parents = <<>>

ParentsWitness ==
    /\ gpc = "done"
    /\ Len(nodes) = 2
    /\ nodes[1] \in Range(parents)
    /\ Len(parents) = 2

----------------------------------------------------------------------------
(* Properties of CollectInstances.process *)

\* the set carries the marker
Marked(s) == "id" \in DOMAIN s.attrs /\ s.attrs["id"] = Marker

\* the set is one an instance is to be made of
Qualifies(s) ==
    /\ Marked(s)
    /\ "family" \in DOMAIN s.attrs
    /\ s.members # <<>>

\* the names of the qualifying sets among the first n of the scan, in scan order
QualNames(n) ==
    LET is == SelectSeq([i \in 1..n |-> i], LAMBDA i : Qualifies(scan[i]))
    IN  [k \in 1..Len(is) |-> scan[is[k]].name]

\* the sets of the instances that follow the ones the context began with
Appended(ctx) ==
    [k \in 1..(Len(ctx) - Len(context0)) |-> ctx[Len(context0) + k].objset]

\* the instances of ctx that this pass created
CreatedIn(ctx) == {i \in 1..Len(ctx) : ctx[i].objset # ""}

\* the objectSet an instance was made of
SetOf(inst) == scan[CHOOSE i \in 1..Len(scan) : scan[i].name = inst.objset]

\* C1: when process returns, the instances it appended are, in scan order
\* before the sort, those of the sets that carry the marker id, have a
\* family and have members; a set without id or with another id has none.
InstancesMatchQualifyingSets ==
    pc = "done" =>
        /\ SubSeq(presort, 1, Len(context0)) = context0
        /\ Appended(presort) = QualNames(Len(scan))
        /\ \A k \in CreatedIn(context) :
               \E i \in 1..Len(scan) :
                   scan[i].name = context[k].objset /\ Qualifies(scan[i])

InstancesMatchWitness ==
    /\ pc = "done"
    /\ \E i \in 1..Len(scan) : "id" \notin DOMAIN scan[i].attrs
    /\ \E i \in 1..Len(scan) :
           "id" \in DOMAIN scan[i].attrs /\ scan[i].attrs["id"] = OtherId
    /\ Len(presort) > Len(context0)

\* C2: a marked set without family makes process fail with an assertion
\* error that names the set, with or without members and whatever its other
\* attributes, and no instance is made of it.
MissingFamilyAborts ==
    [][(InLoop /\ Marked(scan[idx]) /\ "family" \notin DOMAIN scan[idx].attrs) =>
           /\ pc' = "failed"
           /\ error' = scan[idx].name
           /\ context' = context
           /\ \A k \in 1..Len(context') : context'[k].objset # scan[idx].name]_vars

MissingFamilyWitness ==
    /\ pc = "failed"
    /\ error = scan[idx].name
    /\ scan[idx].members # <<>>
    /\ "active" \in DOMAIN scan[idx].attrs

\* C3: a marked set with a family and no members makes no instance and no
\* error: a warning is logged, the context stays as it is and the loop goes
\* on with the next set.
EmptySetSkipped ==
    [][(InLoop /\ Marked(scan[idx]) /\ "family" \in DOMAIN scan[idx].attrs
            /\ scan[idx].members = <<>>) =>
           /\ context' = context
           /\ warnings' = Append(warnings, scan[idx].name)
           /\ pc' = "loop"
           /\ error' = error
           /\ idx' = idx + 1]_vars

EmptySetWitness ==
    /\ pc = "done"
    /\ \E i, j \in 1..Len(scan) :
           /\ i < j
           /\ scan[i].name \in Range(warnings)
           /\ scan[j].name \in Range(Appended(presort))

\* the paths C4 names: the members, their non-intermediate descendants and
\* their ancestors, from the scene's structure
ExpectedHierarchy(s) ==
    LET M == Range(s.members)
    IN  {HostLong(m) : m \in M}
        \cup {LongName(d) : d \in UNION {Descendants(m) \ Intermediate : m \in M}}
        \cup {LongName(q) : q \in UNION {ProperPrefixes(m) : m \in M \ DgNodes}}

SortKey(inst) ==
    IF "families" \in DOMAIN inst.data THEN inst.data["families"]
    ELSE inst.data["family"]

\* where an instance stands in a context
PosIn(ctx, inst) == CHOOSE i \in 1..Len(ctx) : ctx[i] = inst

HostValue(s, a) == IF a \in s.unreadable THEN None ELSE s.attrs[a]

\* C6 as claimed: every user-defined attribute of the set is a key of the
\* instance's data, with the value read from the host or None when the read
\* raises.
AttrsCopiedVerbatim ==
    \A k \in CreatedIn(context) :
        LET s == SetOf(context[k])
        IN  \A a \in DOMAIN s.attrs :
                /\ a \in DOMAIN context[k].data
                /\ context[k].data[a] = HostValue(s, a)

\* C6 as amended: every user-defined attribute of the set is a key of the
\* instance's data, with the value read from the host or None when the read
\* raises, except publish on a set that also has active, which gets the
\* value recorded for active; an unreadable attribute neither aborts the
\* pass nor keeps the instance from being created.
AttrsCopiedExceptPublish ==
    /\ \A k \in CreatedIn(context) :
           LET s == SetOf(context[k])
           IN  \A a \in DOMAIN s.attrs :
                   /\ a \in DOMAIN context[k].data
                   /\ context[k].data[a] =
                          IF a = "publish" /\ "active" \in DOMAIN s.attrs
                          THEN HostValue(s, "active")
                          ELSE HostValue(s, a)
    /\ pc = "failed" => "family" \notin DOMAIN scan[idx].attrs
    /\ pc = "done" =>
           \A i \in 1..Len(scan) :
               Qualifies(scan[i]) =>
                   \E k \in CreatedIn(context) : context[k].objset = scan[i].name

AttrsCopiedWitness ==
    \E k \in CreatedIn(context) :
        LET s == SetOf(context[k])
        IN  /\ "name" \in s.unreadable
            /\ {"active", "publish"} \subseteq (DOMAIN s.attrs) \ s.unreadable
            /\ s.attrs["active"] # s.attrs["publish"]

\* C7: an instance of a set with an active attribute has publish equal to
\* active, also when the set has a publish attribute of its own; for a set
\* without active the collector adds no publish key.
ActiveRemappedToPublish ==
    \A k \in CreatedIn(context) :
        LET s == SetOf(context[k])
            d == context[k].data
        IN  IF "active" \in DOMAIN s.attrs
            THEN "publish" \in DOMAIN d /\ d["publish"] = d["active"]
            ELSE /\ ("publish" \in DOMAIN d) <=> ("publish" \in DOMAIN s.attrs)
                 /\ "publish" \in DOMAIN s.attrs => d["publish"] = HostValue(s, "publish")

ActiveRemappedWitness ==
    \E k \in CreatedIn(context) :
        LET s == SetOf(context[k])
        IN  /\ {"active", "publish"} \subseteq DOMAIN s.attrs
            /\ s.unreadable = {}
            /\ s.attrs["active"] = "False"
            /\ s.attrs["publish"] = "True"
            /\ context[k].data["publish"] = "False"

\* C10: when the assertion fails at a set, the context holds what it began
\* with and then the instances of the qualifying sets scanned before that
\* set, in scan order; the sort has not run; no set from the failing one on
\* has an instance or a warning.
AbortLeavesPartialContext ==
    pc = "failed" =>
        /\ SubSeq(context, 1, Len(context0)) = context0
        /\ Appended(context) = QualNames(idx - 1)
        /\ presort = <<>>
        /\ \A j \in idx..Len(scan) :
               /\ scan[j].name \notin Range(warnings)
               /\ \A k \in 1..Len(context) : context[k].objset # scan[j].name

AbortWitness ==
    /\ pc = "failed"
    /\ idx < Len(scan)
    /\ Len(context) > Len(context0)
    /\ \E i, j \in 1..Len(context) :
           i < j /\ Rank(SortKey(context[i])) > Rank(SortKey(context[j]))
    /\ Qualifies(scan[Len(scan)])

----------------------------------------------------------------------------
(* Properties of CreateYetiRig.process *)

\* C8: every call creates the instance set and then one more set named
\* "input_SET"; the scene has two new sets per call, the second is empty
\* and a member of the first, and the first is no member of the second.
YetiRigTwoSets ==
    /\ Len(sets) = 2 * Len(created)
    /\ \A k \in 1..Len(created) :
           LET c == created[k]
           IN  /\ c.instance = 2 * k - 1
               /\ c.input = 2 * k
               /\ sets[c.input].name = "input_SET"
               /\ sets[c.input].nodes = {}
               /\ sets[c.input].subsets = {}
               /\ c.input \in sets[c.instance].subsets
               /\ c.instance \notin sets[c.input].subsets

YetiRigWitness ==
    /\ Len(created) = 2
    /\ sets[3].nodes # {}
    /\ sets[1].nodes = {}

====
